---- MODULE Spec2Model ----
(***************************************************************************)
(* A model of the DANCO machine output tracker (src/App.py): the three     *)
(* SQLite tables, the form handlers that write them and the helper         *)
(* functions the handlers and the dashboard call.                          *)
(*                                                                         *)
(* Representation.  A nullable column holds a sequence: Null (<<>>) for    *)
(* SQL NULL / Python None, otherwise a non-empty sequence.  A datetime is  *)
(* a number of minutes (the time widget is labelled HH:MM); its ISO text,  *)
(* as stored in the TEXT columns, is the triple <<day, hour, minute>> of   *)
(* fixed-width fields, ordered as SQLite orders the text.  run_hours is    *)
(* kept in thousandths of an hour (the code rounds it to 3 decimals),      *)
(* a deviation in hundredths of a percent (rounded to 2 decimals).         *)
(***************************************************************************)
EXTENDS Integers, Sequences, FiniteSets, TLC

VARIABLES run_log,          \* table run_log, in rowid order (row i has id i)
          machine_logs,     \* table machine_logs, in rowid order
          expected_output,  \* table expected_output: a set of rows
          expected_seq,     \* AUTOINCREMENT counter of expected_output
          page,             \* what the last script run rendered
          sessions,         \* a Log Size Change submit running in each browser
                            \* session, statement by statement
          calc              \* one call of calculate_deviation and its result

vars == <<run_log, machine_logs, expected_output, expected_seq, page, sessions, calc>>

----------------------------------------------------------------------------
(* Bounds of the model *)

\* rows inserted into the database, all tables together
MaxRows == 3

\* MACHINES, restricted to its first two entries
MACHINES == {"Machine 1", "Machine 2"}

\* the (date, time) pairs an operator enters in the Log Size Change form:
\* day 0 at 23:59, day 1 at 08:00 and at 08:30
StartInputs == { [date |-> 0, time |-> <<23, 59>>],
                 [date |-> 1, time |-> <<8, 0>>],
                 [date |-> 1, time |-> <<8, 30>>] }

\* the start inputs of the runs that are stopped half way: 08:00 and 08:30
\* of day 1, in either order
CrashStartInputs == { s \in StartInputs : s.date = 1 }

\* the material / PN / size selections of the forms
SizeInputs == { [material |-> "HDPE", pn |-> "16", size |-> "20"],
                [material |-> "PP",   pn |-> "",   size |-> "25"] }

\* what an operator enters in the Machine Tracker form: the date, machine and
\* material / PN / size, and the outputs (kg/hr)
EntryDates == {1}

EntryMachines == {"Machine 1"}

EntryForms == { [material |-> "HDPE", pn |-> "16", size |-> "20"] }

EntryExpected == {0, 100}

EntryActual == {90, 115}

\* what an admin enters in the Expected Output Settings form: the material /
\* PN / size, the machine and the rate (kg/hr)
SettingsForms == { [material |-> "HDPE", pn |-> "16", size |-> "20"] }

SettingsExpected == {100, 120}

\* the browser sessions whose script runs interleave
Sessions == {"s1", "s2"}

\* the arguments of calculate_deviation: expected from -MaxRate to MaxRate or
\* None, actual from 0 to MaxRate + MaxOver
MaxRate == 100

MaxOver == 15

\* datetime.now() when the dashboard is rendered: day 1 at 09:00 and at 10:00
Nows == { 24 * 60 + 9 * 60, 24 * 60 + 10 * 60 }

----------------------------------------------------------------------------
(* Values *)

Null == <<>>

Some(v) == <<v>>

MinutesPerDay == 24 * 60

\* datetime.combine(log_date, log_time)
Combine(d, t) == d * MinutesPerDay + t[1] * 60 + t[2]

\* datetime.isoformat(): the text "YYYY-MM-DDTHH:MM:SS" as its fields
IsoFormat(dt) == << dt \div MinutesPerDay, (dt % MinutesPerDay) \div 60, dt % 60 >>

\* datetime.fromisoformat()
FromIso(iso) == iso[1] * MinutesPerDay + iso[2] * 60 + iso[3]

\* SQLite's comparison of two ISO texts (ORDER BY start_time)
IsoLess(a, b) ==
    \/ a[1] < b[1]
    \/ a[1] = b[1] /\ a[2] < b[2]
    \/ a[1] = b[1] /\ a[2] = b[2] /\ a[3] < b[3]

\* Python's round(): num/den (den # 0) to the nearest integer, a tie to the even one
Round(num, den) ==
    LET n == IF den < 0 THEN 0 - num ELSE num
        d == IF den < 0 THEN 0 - den ELSE den
        q == n \div d
        r == n % d
    IN  IF 2 * r < d THEN q
        ELSE IF 2 * r > d THEN q + 1
        ELSE IF q % 2 = 0 THEN q ELSE q + 1

----------------------------------------------------------------------------
(* Helper functions of the run ledger *)

\* SELECT ... FROM run_log WHERE machine=? AND end_time IS NULL
OpenRuns(log, machine) ==
    { i \in DOMAIN log : log[i].machine = machine /\ log[i].end_time = Null }

\* ... ORDER BY start_time DESC LIMIT 1: the ids the query may return (SQLite
\* does not say which of several rows with the greatest start_time comes first)
LatestOpenRun(log, machine) ==
    { i \in OpenRuns(log, machine) :
        \A j \in OpenRuns(log, machine) :
            ~ IsoLess(log[i].start_time, log[j].start_time) }

\* RunHours with the quotient cut off instead of rounded
RunHours_Truncated(start_iso, end_iso) ==
    (1000 * (FromIso(end_iso) - FromIso(start_iso))) \div 60

\* round((end_dt - start_dt).total_seconds() / 3600.0, 3), in thousandths
RunHours(start_iso, end_iso) ==
    Round(1000 * (FromIso(end_iso) - FromIso(start_iso)), 60)

\* CloseRun writing the run's own start as its end
CloseRun_OwnStart(log, rid, new_start_iso) ==
    [log EXCEPT ![rid].end_time = log[rid].start_time,
                ![rid].run_hours = Some(RunHours(log[rid].start_time, new_start_iso))]

\* CloseRun with WHERE machine=? in place of WHERE id=?
CloseRun_WholeMachine(log, rid, new_start_iso) ==
    [ i \in DOMAIN log |->
        IF log[i].machine = log[rid].machine
        THEN [log[i] EXCEPT !.end_time = new_start_iso,
                            !.run_hours = Some(RunHours(log[i].start_time, new_start_iso))]
        ELSE log[i] ]

\* CloseRun with run_hours left out of the SET clause
CloseRun_EndOnly(log, rid, new_start_iso) ==
    [log EXCEPT ![rid].end_time = new_start_iso]

\* UPDATE run_log SET end_time=?, run_hours=? WHERE id=?
CloseRun(log, rid, new_start_iso) ==
    [log EXCEPT ![rid].end_time = new_start_iso,
                ![rid].run_hours = Some(RunHours(log[rid].start_time, new_start_iso))]

\* finalize_previous_run that returns without the UPDATE
FinalizePreviousRun_NoClose(log, machine, new_start_iso) == {log}

\* finalize_previous_run with machine=? left out of the WHERE clause: it
\* closes the open run that starts latest, whatever its machine
FinalizePreviousRun_AnyMachine(log, machine, new_start_iso) ==
    LET open   == { i \in DOMAIN log : log[i].end_time = Null }
        latest == { i \in open :
                      \A j \in open : ~ IsoLess(log[i].start_time, log[j].start_time) }
    IN  IF latest = {}
        THEN {log}
        ELSE { CloseRun(log, rid, new_start_iso) : rid \in latest }

\* finalize_previous_run leaving the open run alone when the new start is
\* earlier than the start of the open run
FinalizePreviousRun_RejectsEarlier(log, machine, new_start_iso) ==
    IF LatestOpenRun(log, machine) = {}
    THEN {log}
    ELSE { IF IsoLess(new_start_iso, log[rid].start_time)
           THEN log
           ELSE CloseRun(log, rid, new_start_iso) : rid \in LatestOpenRun(log, machine) }

\* finalize_previous_run: the tables it may leave.  fromisoformat cannot
\* fail on a text isoformat wrote, so the except branch is never taken.
FinalizePreviousRun(log, machine, new_start_iso) ==
    IF LatestOpenRun(log, machine) = {}
    THEN {log}
    ELSE { CloseRun(log, rid, new_start_iso) : rid \in LatestOpenRun(log, machine) }

\* log_combined, for inputs without surrounding blanks
LogCombined(f) ==
    IF f.material \in {"HDPE", "PPR"}
    THEN f.size \o " mm PN " \o f.pn
    ELSE IF f.pn = "" THEN f.size
         ELSE IF f.size = "" THEN "PN " \o f.pn
              ELSE f.size \o " PN " \o f.pn

\* INSERT INTO run_log (...) VALUES (?, ?, ?, ?, NULL, NULL, ?, ?); remarks
\* and added_by are free text stored as given and are left out
InsertRun(log, date, machine, size, start_iso) ==
    Append(log, [ id         |-> Len(log) + 1,
                  date       |-> date,
                  machine    |-> machine,
                  size       |-> size,
                  start_time |-> start_iso,
                  end_time   |-> Null,
                  run_hours  |-> Null ])

\* rows inserted so far, all tables together
RowsWritten == Len(run_log) + Len(machine_logs) + expected_seq

\* the page a script run renders
Rendered(choice, body) == [choice |-> choice, body |-> body]

----------------------------------------------------------------------------
(* Helper functions of the output entries and the expected outputs *)

\* calculate_deviation without the test expected > 0
CalculateDeviation_NoSignTest(expected, actual) ==
    IF expected # Null /\ expected[1] # 0
    THEN Round(10000 * (actual - expected[1]), expected[1])
    ELSE 0

\* calculate_deviation: expected is a number or None, actual a number; the
\* result is in hundredths of a percent
CalculateDeviation(expected, actual) ==
    IF expected # Null /\ expected[1] # 0 /\ expected[1] > 0
    THEN Round(10000 * (actual - expected[1]), expected[1])
    ELSE 0

\* the rows of expected_output with the four-part key
ExpectedRows(table, material, size, pn, machine) ==
    { r \in table : /\ r.material = material
                    /\ r.size = size
                    /\ r.pn = pn
                    /\ r.machine = machine }

\* get_expected_from_db with the machine left out of the WHERE clause
GetExpectedFromDb_AnyMachine(material, size, pn, machine) ==
    IF \A r \in expected_output :
           ~ (r.material = material /\ r.size = size /\ r.pn = pn)
    THEN {Null}
    ELSE { Some(r.expected) :
             r \in { x \in expected_output :
                       x.material = material /\ x.size = size /\ x.pn = pn } }

\* get_expected_from_db: what fetchone may give, as float or None
GetExpectedFromDb(material, size, pn, machine) ==
    IF ExpectedRows(expected_output, material, size, pn, machine) = {}
    THEN {Null}
    ELSE { Some(r.expected) :
             r \in ExpectedRows(expected_output, material, size, pn, machine) }

\* combined_size of the Machine Tracker form
CombinedSize(f) ==
    IF f.size # "" /\ f.pn # "" THEN f.size \o " mm PN " \o f.pn ELSE f.size

\* compute_total_running_hours, in thousandths of an hour
RECURSIVE SumDone(_, _)
SumDone(log, n) ==
    IF n = 0 THEN 0
    ELSE SumDone(log, n - 1)
         + (IF log[n].run_hours # Null THEN log[n].run_hours[1] ELSE 0)

RECURSIVE SumOngoing(_, _, _)
SumOngoing(log, n, now) ==
    IF n = 0 THEN 0
    ELSE SumOngoing(log, n - 1, now)
         + (IF log[n].end_time = Null THEN now - FromIso(log[n].start_time) ELSE 0)

\* compute_total_running_hours without the loop over the open runs
ComputeTotalRunningHours_DoneOnly(log, now) ==
    Round(60 * SumDone(log, Len(log)), 60)

\* compute_total_running_hours taking the elapsed time off the total
ComputeTotalRunningHours_OngoingSubtracted(log, now) ==
    Round(60 * SumDone(log, Len(log)) - 1000 * SumOngoing(log, Len(log), now), 60)

ComputeTotalRunningHours(log, now) ==
    Round(60 * SumDone(log, Len(log)) + 1000 * SumOngoing(log, Len(log), now), 60)

\* SELECT DISTINCT machine FROM run_log WHERE end_time IS NULL
RunningMachines(log) ==
    { log[i].machine : i \in { j \in DOMAIN log : log[j].end_time = Null } }

\* the last-run SELECT ordered by start_time ascending
LastRun_Earliest(log, machine) ==
    { i \in DOMAIN log :
        /\ log[i].machine = machine
        /\ \A j \in DOMAIN log :
             log[j].machine = machine => ~ IsoLess(log[j].start_time, log[i].start_time) }

\* SELECT ... WHERE machine=? ORDER BY start_time DESC LIMIT 1
LastRun(log, machine) ==
    { i \in DOMAIN log :
        /\ log[i].machine = machine
        /\ \A j \in DOMAIN log :
             log[j].machine = machine => ~ IsoLess(log[i].start_time, log[j].start_time) }

\* the rows the status table may show for one machine
StatusRows(log, machine, now) ==
    IF LatestOpenRun(log, machine) # {}
    THEN { [ status  |-> "Running",
             size    |-> log[i].size,
             start   |-> Some(log[i].start_time),
             hours   |-> Round(1000 * (now - FromIso(log[i].start_time)), 60) ] :
           i \in LatestOpenRun(log, machine) }
    ELSE IF LastRun(log, machine) # {}
    THEN { [ status  |-> "Idle",
             size    |-> log[i].size,
             start   |-> Some(log[i].start_time),
             hours   |-> IF log[i].run_hours # Null /\ log[i].run_hours[1] # 0
                         THEN log[i].run_hours[1] ELSE 0 ] :
           i \in LastRun(log, machine) }
    ELSE { [ status |-> "Idle", size |-> "", start |-> Null, hours |-> 0 ] }

----------------------------------------------------------------------------
(* Page "Machine Tracker": the submit handler.  The expected output is the
   number the operator leaves in the field, which starts at the looked-up
   value for HDPE and at 0 otherwise; timestamp, remarks and added_by are
   stored as given and are left out. *)

\* the row inserted with the deviation column left at 0
EntryRow_NoDeviation(id, date, machine, f, expected, actual) ==
    [ id              |-> id,
      date            |-> date,
      machine         |-> machine,
      material        |-> f.material,
      size            |-> CombinedSize(f),
      pn              |-> f.pn,
      expected_output |-> expected,
      actual_output   |-> actual,
      deviation       |-> 0 ]

\* the row the INSERT stores for the numbers in the form: deviation_val is
\* computed from e_expected and e_actual of the same script run
EntryRow(id, date, machine, f, expected, actual) ==
    [ id              |-> id,
      date            |-> date,
      machine         |-> machine,
      material        |-> f.material,
      size            |-> CombinedSize(f),
      pn              |-> f.pn,
      expected_output |-> expected,
      actual_output   |-> actual,
      deviation       |-> CalculateDeviation(Some(expected), actual) ]

SaveEntry ==
    \E machine \in EntryMachines, f \in EntryForms, date \in EntryDates,
       actual \in EntryActual :
      \E expected \in { e[1] : e \in
                          { Some(x) : x \in EntryExpected }
                          \cup ( IF f.material = "HDPE"
                                 THEN GetExpectedFromDb(f.material, f.size, f.pn, machine)
                                      \ {Null}
                                 ELSE {} ) } :
        /\ RowsWritten < MaxRows
        /\ machine_logs' =
             Append(machine_logs,
                    EntryRow(Len(machine_logs) + 1, date, machine, f, expected, actual))
        /\ page' = Rendered("Machine Tracker", Null)
        /\ UNCHANGED <<run_log, expected_output, expected_seq, sessions, calc>>

----------------------------------------------------------------------------
(* Page "Expected Output Settings": Add / Update and Delete.  The page is
   rendered for the role admin only; the role is state of one browser
   session and the handlers are modelled as run from an admin session. *)

\* Add / Update that takes the INSERT branch whatever the SELECT found
AddUpdateOf_AlwaysInsert(f, machine, expected) ==
    /\ RowsWritten < MaxRows
    /\ expected_output' =
         expected_output
         \cup {[ id       |-> expected_seq + 1,
                 material |-> f.material,
                 size     |-> f.size,
                 pn       |-> f.pn,
                 machine  |-> machine,
                 expected |-> expected ]}
    /\ expected_seq' = expected_seq + 1
    /\ page' = Rendered("Expected Output Settings", Null)
    /\ UNCHANGED <<run_log, machine_logs, sessions, calc>>

\* the Add / Update submission of one form
AddUpdateOf(f, machine, expected) ==
    LET found == ExpectedRows(expected_output, f.material, f.size, f.pn, machine)
    IN  /\ IF found # {}
           THEN /\ \E row \in found :
                     expected_output' =
                         (expected_output \ {row})
                         \cup {[row EXCEPT !.expected = expected]}
                /\ UNCHANGED expected_seq
           ELSE /\ RowsWritten < MaxRows
                /\ expected_output' =
                     expected_output
                     \cup {[ id       |-> expected_seq + 1,
                             material |-> f.material,
                             size     |-> f.size,
                             pn       |-> f.pn,
                             machine  |-> machine,
                             expected |-> expected ]}
                /\ expected_seq' = expected_seq + 1
        /\ page' = Rendered("Expected Output Settings", Null)
        /\ UNCHANGED <<run_log, machine_logs, sessions, calc>>

AddUpdate ==
    \E f \in SettingsForms, machine \in MACHINES, expected \in SettingsExpected :
        AddUpdateOf(f, machine, expected)

\* the Delete entry button pressed with the id of `row` selected
DeleteEntryOf(row) ==
    /\ expected_output' = { r \in expected_output : r.id # row.id }
    /\ page' = Rendered("Expected Output Settings", Null)
    /\ UNCHANGED <<run_log, machine_logs, expected_seq, sessions, calc>>

DeleteEntry ==
    \E row \in expected_output : DeleteEntryOf(row)

----------------------------------------------------------------------------
(* Pages "Dashboard" and "Export": read the tables and render *)

\* the dashboard writing the elapsed hours it shows into the open rows
Dashboard_StoresHours ==
    \E now \in Nows :
      \E table \in { t \in [MACHINES -> UNION { StatusRows(run_log, m, now) : m \in MACHINES }] :
                       \A m \in MACHINES : t[m] \in StatusRows(run_log, m, now) } :
        /\ page' = Rendered("Dashboard",
                            [ now         |-> now,
                              total_hours |-> ComputeTotalRunningHours(run_log, now),
                              running     |-> Cardinality(RunningMachines(run_log)),
                              status      |-> table ])
        /\ run_log' = [ i \in DOMAIN run_log |->
                          IF run_log[i].end_time = Null
                          THEN [run_log[i] EXCEPT !.run_hours =
                                  Some(Round(1000 * (now - FromIso(run_log[i].start_time)), 60))]
                          ELSE run_log[i] ]
        /\ UNCHANGED <<machine_logs, expected_output, expected_seq, sessions, calc>>

Dashboard ==
    \E now \in Nows :
      \E table \in { t \in [MACHINES -> UNION { StatusRows(run_log, m, now) : m \in MACHINES }] :
                       \A m \in MACHINES : t[m] \in StatusRows(run_log, m, now) } :
        /\ page' = Rendered("Dashboard",
                            [ now         |-> now,
                              total_hours |-> ComputeTotalRunningHours(run_log, now),
                              running     |-> Cardinality(RunningMachines(run_log)),
                              status      |-> table ])
        /\ UNCHANGED <<run_log, machine_logs, expected_output, expected_seq, sessions, calc>>

Export ==
    /\ page' = Rendered("Export",
                        IF machine_logs = <<>> /\ run_log = <<>>
                        THEN Null
                        ELSE <<machine_logs, run_log>>)
    /\ UNCHANGED <<run_log, machine_logs, expected_output, expected_seq, sessions, calc>>

----------------------------------------------------------------------------
(* Page "Log Size Change": the submit handler *)

\* the handler on one submission: machine, material / PN / size f, date and time s
StartRunOf(machine, f, s) ==
    LET start_iso == IsoFormat(Combine(s.date, s.time))
    IN  /\ RowsWritten < MaxRows
        /\ \E closed \in FinalizePreviousRun(run_log, machine, start_iso) :
             run_log' = InsertRun(closed, s.date, machine, LogCombined(f), start_iso)
        /\ page' = Rendered("Log Size Change", Null)
        /\ UNCHANGED <<machine_logs, expected_output, expected_seq, sessions, calc>>

StartRun ==
    \E machine \in MACHINES, f \in SizeInputs, s \in StartInputs :
        StartRunOf(machine, f, s)

----------------------------------------------------------------------------
(* The same handler when the store fails a write.  A failure of the UPDATE
   is caught by the except branch of finalize_previous_run and the handler
   goes on to the INSERT; a failure of the INSERT or of its commit leaves
   the handler after the close is committed. *)

StartRunUpdateFails ==
    \E machine \in MACHINES, f \in SizeInputs, s \in StartInputs :
        LET start_iso == IsoFormat(Combine(s.date, s.time))
        IN  /\ RowsWritten < MaxRows
            /\ LatestOpenRun(run_log, machine) # {}
            /\ run_log' = InsertRun(run_log, s.date, machine, LogCombined(f), start_iso)
            /\ page' = Rendered("Log Size Change", Null)
            /\ UNCHANGED <<machine_logs, expected_output, expected_seq, sessions, calc>>

StartRunInsertFails ==
    \E machine \in MACHINES, s \in StartInputs :
        LET start_iso == IsoFormat(Combine(s.date, s.time))
        IN  /\ run_log' \in FinalizePreviousRun(run_log, machine, start_iso)
            /\ page' = Rendered("Log Size Change", Some("sqlite3.Error"))
            /\ UNCHANGED <<machine_logs, expected_output, expected_seq, sessions, calc>>

----------------------------------------------------------------------------
(* The same handler run by several browser sessions at once: each SQL
   statement with its commit is one step. *)

IdleSession ==
    [pc |-> "idle", machine |-> "", size |-> "", date |-> 0,
     start_iso |-> Null, row |-> Null]

InFlight == Cardinality({ w \in Sessions : sessions[w].pc # "idle" })

\* the submit of one form, up to the SELECT and fetchone of
\* finalize_previous_run
SelectOpenRunOf(w, machine, f, s) ==
    \E row \in IF LatestOpenRun(run_log, machine) = {}
               THEN {Null}
               ELSE { Some(rid) : rid \in LatestOpenRun(run_log, machine) } :
      /\ sessions[w].pc = "idle"
      /\ RowsWritten + InFlight < MaxRows
      /\ sessions' = [sessions EXCEPT ![w] =
                        [ pc        |-> IF row = Null THEN "insert" ELSE "update",
                          machine   |-> machine,
                          size      |-> LogCombined(f),
                          date      |-> s.date,
                          start_iso |-> IsoFormat(Combine(s.date, s.time)),
                          row       |-> row ]]
      /\ UNCHANGED <<run_log, machine_logs, expected_output, expected_seq, page, calc>>

SelectOpenRun(w) ==
    \E machine \in MACHINES, f \in SizeInputs, s \in StartInputs :
        SelectOpenRunOf(w, machine, f, s)

\* the UPDATE of finalize_previous_run and its commit
UpdatePreviousRun(w) ==
    /\ sessions[w].pc = "update"
    /\ run_log' = CloseRun(run_log, sessions[w].row[1], sessions[w].start_iso)
    /\ sessions' = [sessions EXCEPT ![w].pc = "insert"]
    /\ UNCHANGED <<machine_logs, expected_output, expected_seq, page, calc>>

\* the INSERT of the handler and its commit
InsertNewRun(w) ==
    /\ sessions[w].pc = "insert"
    /\ run_log' = InsertRun(run_log, sessions[w].date, sessions[w].machine,
                            sessions[w].size, sessions[w].start_iso)
    /\ sessions' = [sessions EXCEPT ![w] = IdleSession]
    /\ UNCHANGED <<machine_logs, expected_output, expected_seq, page, calc>>

\* the script run of session w stops between two statements: what is
\* committed stays, the rest of the handler never runs
Crash(w) ==
    /\ sessions[w].pc # "idle"
    /\ sessions' = [sessions EXCEPT ![w] = IdleSession]
    /\ UNCHANGED <<run_log, machine_logs, expected_output, expected_seq, page, calc>>

----------------------------------------------------------------------------
(* One call of calculate_deviation *)

DeviationInputs ==
    [ expected : {Null} \cup { Some(e) : e \in (0 - MaxRate) .. MaxRate },
      actual   : 0 .. (MaxRate + MaxOver),
      result   : {Null} ]

Calculate ==
    /\ calc.result = Null
    /\ calc' = [calc EXCEPT !.result = Some(CalculateDeviation(calc.expected, calc.actual))]
    /\ UNCHANGED <<run_log, machine_logs, expected_output, expected_seq, page, sessions>>

----------------------------------------------------------------------------

Init ==
    /\ run_log = <<>>
    /\ machine_logs = <<>>
    /\ expected_output = {}
    /\ expected_seq = 0
    /\ page = Rendered("Machine Tracker", Null)
    /\ sessions = [w \in Sessions |-> IdleSession]
    /\ calc = [expected |-> Null, actual |-> 0, result |-> Some(0)]

Next ==
    \/ StartRun
    \/ SaveEntry
    \/ AddUpdate
    \/ DeleteEntry
    \/ Dashboard
    \/ Export

\* the handlers, one script run at a time
Spec == Init /\ [][Next]_vars

NextFail ==
    \/ StartRun
    \/ StartRunUpdateFails
    \/ StartRunInsertFails

\* the Log Size Change handler over a store that may fail a write
SpecFail == Init /\ [][NextFail]_vars

NextConc ==
    \E w \in Sessions :
        \/ SelectOpenRun(w)
        \/ UpdatePreviousRun(w)
        \/ InsertNewRun(w)

\* the Log Size Change handler in interleaved script runs
SpecConc == Init /\ [][NextConc]_vars

NextCrash ==
    \E w \in {"s1"} :
        \/ /\ InFlight = 0
           /\ \E machine \in MACHINES, f \in SizeInputs, s \in CrashStartInputs :
                SelectOpenRunOf(w, machine, f, s)
        \/ UpdatePreviousRun(w)
        \/ InsertNewRun(w)
        \/ Crash(w)

\* the Log Size Change handler, one script run at a time, statement by
\* statement, stopped at any point
SpecCrash == Init /\ [][NextCrash]_vars

InitCalc ==
    /\ run_log = <<>>
    /\ machine_logs = <<>>
    /\ expected_output = {}
    /\ expected_seq = 0
    /\ page = Rendered("Machine Tracker", Null)
    /\ sessions = [w \in Sessions |-> IdleSession]
    /\ calc \in DeviationInputs

\* calculate_deviation on every input
SpecCalc == InitCalc /\ [][Calculate]_vars

----------------------------------------------------------------------------
(* Properties *)

Abs(x) == IF x < 0 THEN 0 - x ELSE x

\* the sessions of one machine in a run_log
RunsOf(log, m) == { i \in DOMAIN log : log[i].machine = m }

Closed(i) == run_log[i].end_time # Null

StartOf(i) == FromIso(run_log[i].start_time)

EndOf(i) == FromIso(run_log[i].end_time)

\* rh thousandths of an hour is `minutes` minutes rounded to 3 decimals of an hour
IsHoursRounded(rh, minutes) == 2 * Abs(60 * rh - 1000 * minutes) <= 60

\* no session of m was closed at an instant before its own start
NoBackdatedClose(m) ==
    \A k \in RunsOf(run_log, m) : Closed(k) => StartOf(k) <= EndOf(k)

\* the session inserted next after i for the same machine
NextRunOf(i) ==
    { j \in RunsOf(run_log, run_log[i].machine) :
        /\ j > i
        /\ \A k \in RunsOf(run_log, run_log[i].machine) : k > i => j <= k }

(* C1: after any sequence of Log Size Change submissions run one at a time,
   every machine has at most one run_log row whose end_time is NULL. *)
C1_SingleOpenRun ==
    \A m \in MACHINES : Cardinality(OpenRuns(run_log, m)) <= 1

\* a machine whose open run was replaced: an earlier run closed, the new one open
C1_Witness ==
    \E m \in MACHINES :
        /\ Cardinality(RunsOf(run_log, m)) >= 2
        /\ Cardinality(OpenRuns(run_log, m)) = 1

(* C2: when machine m has exactly one session, open with start T0, a
   submission for m with instant T1 > T0 leaves exactly two sessions of m:
   the first closed with end T1 and run_hours (T1 - T0) in hours (to 3
   decimals), the second open, with NULL end_time and run_hours, start T1
   and the new size. *)
C2_ClosingSideEffect ==
    [][ \A m \in MACHINES, f \in SizeInputs, s \in StartInputs :
          \A i \in RunsOf(run_log, m) :
            ( /\ RunsOf(run_log, m) = {i}
              /\ run_log[i].end_time = Null
              /\ StartOf(i) < Combine(s.date, s.time)
              /\ StartRunOf(m, f, s) )
            => \E j \in DOMAIN run_log' :
                 /\ j # i
                 /\ RunsOf(run_log', m) = {i, j}
                 /\ run_log'[i].machine = m
                 /\ run_log'[i].size = run_log[i].size
                 /\ run_log'[i].start_time = run_log[i].start_time
                 /\ run_log'[i].end_time # Null
                 /\ FromIso(run_log'[i].end_time) = Combine(s.date, s.time)
                 /\ run_log'[i].run_hours # Null
                 /\ IsHoursRounded(run_log'[i].run_hours[1],
                                   Combine(s.date, s.time) - StartOf(i))
                 /\ run_log'[j].end_time = Null
                 /\ run_log'[j].run_hours = Null
                 /\ FromIso(run_log'[j].start_time) = Combine(s.date, s.time)
                 /\ run_log'[j].size = LogCombined(f)
      ]_vars

\* a machine with two sessions, the first closed after its start, the second open
C2_Witness ==
    \E m \in MACHINES :
      \E i, j \in RunsOf(run_log, m) :
        /\ RunsOf(run_log, m) = {i, j}
        /\ i < j
        /\ Closed(i)
        /\ StartOf(i) < EndOf(i)
        /\ EndOf(i) = StartOf(j)
        /\ ~ Closed(j)

(* C3: when two Log Size Change submissions for the same machine interleave
   statement by statement, the machine has at most one open session once
   both have completed. *)
C3_AtomicStartRun ==
    (\A w \in Sessions : sessions[w].pc = "idle")
        => \A m \in MACHINES : Cardinality(OpenRuns(run_log, m)) <= 1

(* C4: a submission over a failing store records both the close of the open
   session and the insert of the new session of that machine, or neither. *)
C4_NoPartialStartRun ==
    [][ \A i \in DOMAIN run_log :
          run_log[i].end_time = Null
            => ( run_log'[i].end_time # Null
                   <=> ( /\ Len(run_log') = Len(run_log) + 1
                         /\ run_log'[Len(run_log')].machine = run_log[i].machine ) )
      ]_vars

(* C5: every closed session has run_hours equal to (end - start) in hours
   rounded to 3 decimals, also when end is at or before start; 08:00 to
   08:30 of one day gives 0.5. *)
C5_DurationInvariant ==
    \A i \in DOMAIN run_log :
        Closed(i) =>
            /\ run_log[i].run_hours # Null
            /\ IsHoursRounded(run_log[i].run_hours[1], EndOf(i) - StartOf(i))
            /\ ( run_log[i].start_time = <<1, 8, 0>> /\ run_log[i].end_time = <<1, 8, 30>>
                   => run_log[i].run_hours = Some(500) )

\* one session closed 08:00 to 08:30 and one closed at or before its start
C5_Witness ==
    /\ \E i \in DOMAIN run_log :
         run_log[i].start_time = <<1, 8, 0>> /\ run_log[i].end_time = <<1, 8, 30>>
    /\ \E i \in DOMAIN run_log : Closed(i) /\ EndOf(i) <= StartOf(i)

(* C6, as stated: the open session of a machine is last in start-instant
   order, no other session of the machine has a later start. *)
C6_OpenRunLastByStart ==
    \A m \in MACHINES :
      \A o \in OpenRuns(run_log, m) :
        \A j \in RunsOf(run_log, m) : StartOf(j) <= StartOf(o)

(* C6, amended: the open session of a machine is the last one inserted for
   it, and it is last in start-instant order when no session of the machine
   was closed at an instant before its own start. *)
C6_OpenRunLastInserted ==
    \A m \in MACHINES :
      \A o \in OpenRuns(run_log, m) :
        \A j \in RunsOf(run_log, m) \ {o} :
          /\ j < o
          /\ NoBackdatedClose(m) => StartOf(j) <= StartOf(o)

\* three sessions of a machine, starts in order, the open one after two closed
C6_Witness ==
    \E m \in MACHINES :
        /\ Cardinality(RunsOf(run_log, m)) >= 3
        /\ OpenRuns(run_log, m) # {}
        /\ NoBackdatedClose(m)
        /\ \E k \in RunsOf(run_log, m) : Closed(k) /\ StartOf(k) < EndOf(k)

(* C7, as stated: every session with start and end set has start strictly
   before end. *)
C7_StartBeforeEnd ==
    \A i \in DOMAIN run_log : Closed(i) => StartOf(i) < EndOf(i)

(* C7, amended: the end of every closed session is the start of the session
   inserted next for its machine, the instant of the submission that closed
   it, whether that instant is after, at or before the session's start. *)
C7_EndIsNextStart ==
    \A i \in DOMAIN run_log :
        Closed(i) =>
            /\ NextRunOf(i) # {}
            /\ \A n \in NextRunOf(i) : run_log[n].start_time = run_log[i].end_time

\* a session closed at its start and a session closed before its start
C7_Witness ==
    /\ \E i \in DOMAIN run_log : Closed(i) /\ EndOf(i) = StartOf(i)
    /\ \E i \in DOMAIN run_log : Closed(i) /\ EndOf(i) < StartOf(i)

(* C8, as stated: two distinct sessions of a machine have different starts,
   and the one that starts earlier is closed with its end at or before the
   start of the other. *)
C8_StrictOrderNoOverlap ==
    \A m \in MACHINES :
      \A s1, s2 \in RunsOf(run_log, m) :
        s1 # s2 =>
          /\ StartOf(s1) # StartOf(s2)
          /\ StartOf(s1) < StartOf(s2) => (Closed(s1) /\ EndOf(s1) <= StartOf(s2))

(* C8, amended: of two sessions of a machine the one inserted first is
   closed, and when no session of the machine was closed at an instant
   before its own start, it starts no later than the other and ends at or
   before the other's start. *)
C8_InsertionOrderNoOverlap ==
    \A m \in MACHINES :
      \A s1, s2 \in RunsOf(run_log, m) :
        s1 < s2 =>
          /\ Closed(s1)
          /\ NoBackdatedClose(m) =>
               (StartOf(s1) <= StartOf(s2) /\ EndOf(s1) <= StartOf(s2))

\* three sessions of a machine closed in order, two of them with the same start
C8_Witness ==
    \E m \in MACHINES :
        /\ NoBackdatedClose(m)
        /\ \E s1, s2, s3 \in RunsOf(run_log, m) :
             s1 < s2 /\ s2 < s3 /\ StartOf(s1) = StartOf(s2) /\ StartOf(s2) < StartOf(s3)

(* C9: once a session's end_time is set no step changes the session: not a
   submission of any form, not a delete, not a dashboard or export render. *)
C9_ClosedImmutable ==
    [][ \A i \in DOMAIN run_log :
          Closed(i) => (i \in DOMAIN run_log' /\ run_log'[i] = run_log[i]) ]_vars

\* a closed session with a later submission for it to survive
C9_Witness ==
    \E i \in DOMAIN run_log :
        /\ Closed(i)
        /\ \E n \in NextRunOf(i) : Closed(n)

(* C10: calculate_deviation gives 0 when expected is None, zero or
   negative, and otherwise ((actual - expected) / expected) * 100 rounded
   to 2 decimals: 0 for (0, 50) and (None, 50), -10.00 for (100, 90),
   15.00 for (100, 115). *)
C10_Deviation ==
    calc.result # Null =>
        /\ (calc.expected = Null \/ calc.expected[1] <= 0) => calc.result = Some(0)
        /\ (calc.expected # Null /\ calc.expected[1] > 0) =>
              2 * Abs(calc.result[1] * calc.expected[1]
                      - 10000 * (calc.actual - calc.expected[1])) <= calc.expected[1]
        /\ (calc.expected = Some(0) /\ calc.actual = 50) => calc.result = Some(0)
        /\ (calc.expected = Null /\ calc.actual = 50) => calc.result = Some(0)
        /\ (calc.expected = Some(100) /\ calc.actual = 90) => calc.result = Some(0 - 1000)
        /\ (calc.expected = Some(100) /\ calc.actual = 115) => calc.result = Some(1500)

\* the call (100, 115) has returned
C10_Witness ==
    /\ calc.expected = Some(100)
    /\ calc.actual = 115
    /\ calc.result = Some(1500)

\* the sum of f[i] over the indices i in S
RECURSIVE SumOver(_, _)
SumOver(f, S) ==
    IF S = {} THEN 0
    ELSE LET i == CHOOSE x \in S : TRUE
         IN  f[i] + SumOver(f, S \ {i})

\* 60 times the hours run at `now`, in thousandths: the stored run_hours of
\* the closed sessions and the minutes since the start of the open ones
HoursRun60(now) ==
    60 * SumOver([i \in DOMAIN run_log |-> IF Closed(i) THEN run_log[i].run_hours[1] ELSE 0],
                 { i \in DOMAIN run_log : Closed(i) })
    + 1000 * SumOver([i \in DOMAIN run_log |-> now - StartOf(i)],
                     { i \in DOMAIN run_log : ~ Closed(i) })

(* C11: the total running hours the dashboard shows at `now` is the sum of
   the stored run_hours of the closed sessions plus the sum of (now - start)
   in hours over the open sessions, rounded to 3 decimals, every session
   counted once. *)
C11_TotalRunningHours ==
    page.choice = "Dashboard" =>
        2 * Abs(60 * page.body.total_hours - HoursRun60(page.body.now)) <= 60

\* the dashboard rendered over a closed and an open session
C11_Witness ==
    /\ page.choice = "Dashboard"
    /\ \E i \in DOMAIN run_log : Closed(i) /\ run_log[i].run_hours # Some(0)
    /\ \E i \in DOMAIN run_log : ~ Closed(i)

(* C12: rendering the dashboard twice with no submission in between leaves
   run_log as it is, gives the same total for the same now and a total at
   least as large for a later now; one open session started day 1 at 08:00
   gives 1.0 at 09:00 and 2.0 at 10:00. *)
C12_TotalRestartableMonotone ==
    [][ /\ (page.choice = "Dashboard" /\ page'.choice = "Dashboard") =>
              /\ run_log' = run_log
              /\ page'.body.now = page.body.now
                   => page'.body.total_hours = page.body.total_hours
              /\ page'.body.now >= page.body.now
                   => page'.body.total_hours >= page.body.total_hours
        /\ ( /\ page'.choice = "Dashboard"
             /\ Len(run_log') = 1
             /\ run_log'[1].start_time = <<1, 8, 0>>
             /\ run_log'[1].end_time = Null )
           => /\ page'.body.now = 24 * 60 + 9 * 60 => page'.body.total_hours = 1000
              /\ page'.body.now = 24 * 60 + 10 * 60 => page'.body.total_hours = 2000
      ]_vars

\* one open session started at 08:00, the dashboard rendered at 10:00
C12_Witness ==
    /\ page.choice = "Dashboard"
    /\ page.body.now = 24 * 60 + 10 * 60
    /\ page.body.total_hours = 2000
    /\ Len(run_log) = 1
    /\ run_log[1].start_time = <<1, 8, 0>>

\* the four key fields of an expected_output row or of a settings form
KeyOf(r, machine) == <<r.material, r.size, r.pn, machine>>

\* the keys a settings form or a lookup can name
ExpectedKeys ==
    { KeyOf(f, m) : f \in SettingsForms \cup SizeInputs, m \in MACHINES }

\* the entries of a table stored under key k
EntriesAt(table, k) == { r \in table : KeyOf(r, r.machine) = k }

(* C13: after any sequence of Add / Update and Delete submissions the table
   expected_output holds at most one entry per (material, size, pn, machine);
   an Add / Update leaves exactly one entry for its key, carrying the
   submitted rate, and adds no entry when the key was already there. *)
C13_OneEntryPerKey ==
    [][ /\ \A k \in ExpectedKeys : Cardinality(EntriesAt(expected_output', k)) <= 1
        /\ \A f \in SettingsForms, m \in MACHINES, e \in SettingsExpected :
             AddUpdateOf(f, m, e) =>
               /\ \E r \in expected_output' :
                    /\ EntriesAt(expected_output', KeyOf(f, m)) = {r}
                    /\ r.expected = e
               /\ EntriesAt(expected_output, KeyOf(f, m)) # {} =>
                    /\ Cardinality(expected_output') = Cardinality(expected_output)
                    /\ { r.id : r \in expected_output' } = { r.id : r \in expected_output }
      ]_vars

\* both machines have an entry for the same size, with different rates
C13_Witness ==
    /\ Cardinality(expected_output) = 2
    /\ \E r1, r2 \in expected_output :
         /\ r1.machine # r2.machine
         /\ r1.expected = 100
         /\ r2.expected = 120

\* what get_expected_from_db answers for key k in the next state
LookupNext(k) == GetExpectedFromDb(k[1], k[2], k[3], k[4])'

(* C14: the lookup answers the rate of the entry whose four key fields equal
   its arguments and None when there is none; after an Add / Update of key k
   with rate r the lookup of k is r and the lookup of every other key is what
   it was; after the Delete of the entry of k the lookup of k is None. *)
C14_LookupExactMatch ==
    [][ /\ \A k \in ExpectedKeys :
             /\ Null \in LookupNext(k) <=> EntriesAt(expected_output', k) = {}
             /\ \A v \in SettingsExpected :
                  Some(v) \in LookupNext(k)
                    <=> \E r \in EntriesAt(expected_output', k) : r.expected = v
        /\ \A f \in SettingsForms, m \in MACHINES, e \in SettingsExpected :
             AddUpdateOf(f, m, e) =>
               /\ LookupNext(KeyOf(f, m)) = {Some(e)}
               /\ \A k \in ExpectedKeys \ {KeyOf(f, m)} :
                    LookupNext(k) = GetExpectedFromDb(k[1], k[2], k[3], k[4])
        /\ \A row \in expected_output :
             DeleteEntryOf(row) => LookupNext(KeyOf(row, row.machine)) = {Null}
      ]_vars

\* an entry was deleted and the other machine's entry is still looked up
C14_Witness ==
    /\ expected_seq = 2
    /\ \E r \in expected_output :
         /\ expected_output = {r}
         /\ GetExpectedFromDb(r.material, r.size, r.pn, r.machine) = {Some(r.expected)}
         /\ \E m \in MACHINES \ {r.machine} :
              GetExpectedFromDb(r.material, r.size, r.pn, m) = {Null}

\* the sessions of machine m that start latest among the sessions in S
LatestByStart(S) == { i \in S : \A j \in S : StartOf(j) <= StartOf(i) }

(* C15 as stated: the status table shows a machine as Running exactly when
   its most recent session by start instant has a null end. *)
C15_RunningIffLatestStartOpen ==
    \A m \in MACHINES, now \in Nows :
      \A row \in StatusRows(run_log, m, now) :
        row.status = "Running"
          <=> \E i \in LatestByStart(RunsOf(run_log, m)) : ~ Closed(i)

(* C15: the status table shows a machine as Running exactly when it has a
   session with null end, with the size, the start and the hours from that
   start to now (3 decimals) of the open session that starts latest;
   otherwise as Idle, with the size and the stored duration of the session
   that starts latest, or with an empty row when it has no session. *)
C15_CurrentStatus ==
    \A m \in MACHINES, now \in Nows :
      \A row \in StatusRows(run_log, m, now) :
        LET open == { i \in RunsOf(run_log, m) : ~ Closed(i) }
        IN  /\ row.status = "Running" <=> open # {}
            /\ row.status = "Running" =>
                 \E i \in LatestByStart(open) :
                    /\ row.size = run_log[i].size
                    /\ row.start = Some(run_log[i].start_time)
                    /\ IsHoursRounded(row.hours, now - StartOf(i))
            /\ row.status # "Running" =>
                 /\ row.status = "Idle"
                 /\ IF RunsOf(run_log, m) = {}
                    THEN row.size = "" /\ row.start = Null /\ row.hours = 0
                    ELSE \E i \in LatestByStart(RunsOf(run_log, m)) :
                            /\ Closed(i)
                            /\ row.size = run_log[i].size
                            /\ row.hours = run_log[i].run_hours[1]

\* one machine is shown Running, the other has stopped and is shown Idle
\* with the size and the duration, other than 0, of its last session
C15_Witness ==
    \E m1, m2 \in MACHINES, now \in Nows :
        /\ \E row \in StatusRows(run_log, m1, now) :
              row.status = "Running" /\ row.hours > 0
        /\ \E row \in StatusRows(run_log, m2, now) :
              row.status = "Idle" /\ row.size # "" /\ row.hours # 0

(* C16: every stored machine_logs row carries the deviation that
   calculate_deviation gives for the expected_output and actual_output of
   the same row. *)
C16_StoredDeviationDerived ==
    \A i \in DOMAIN machine_logs :
        machine_logs[i].deviation =
            CalculateDeviation(Some(machine_logs[i].expected_output),
                               machine_logs[i].actual_output)

\* entries stored with a deviation above and below 0 and with expected 0
C16_Witness ==
    /\ \E i \in DOMAIN machine_logs :
          /\ machine_logs[i].expected_output = 100
          /\ machine_logs[i].actual_output = 115
          /\ machine_logs[i].deviation = 1500
    /\ \E i \in DOMAIN machine_logs :
          /\ machine_logs[i].expected_output = 100
          /\ machine_logs[i].actual_output = 90
          /\ machine_logs[i].deviation = 0 - 1000
    /\ \E i \in DOMAIN machine_logs :
          /\ machine_logs[i].expected_output = 0
          /\ machine_logs[i].deviation = 0

(* C17: rendering the dashboard leaves run_log, machine_logs and
   expected_output exactly as they were. *)
C17_DashboardPureRead ==
    [][ page'.choice = "Dashboard" =>
          /\ run_log' = run_log
          /\ machine_logs' = machine_logs
          /\ expected_output' = expected_output
          /\ expected_seq' = expected_seq
      ]_vars

\* the dashboard rendered over three tables that all have rows, one of
\* them an open session
C17_Witness ==
    /\ page.choice = "Dashboard"
    /\ page.body.running = 1
    /\ Len(run_log) = 1
    /\ Len(machine_logs) = 1
    /\ Cardinality(expected_output) = 1

(* C18: the close of the open session is committed before or together with
   the insert of the new session: in the state a row is inserted in, the
   inserted session is the only open session of its machine. *)
C18_CloseBeforeInsert ==
    [][ Len(run_log') > Len(run_log) =>
          OpenRuns(run_log', run_log'[Len(run_log')].machine) = {Len(run_log')}
      ]_vars

\* the status table shows machine m with the given status, whatever the
\* instant it is rendered at
Shown(log, m, status) ==
    \A now \in Nows : \A row \in StatusRows(log, m, now) : row.status = status

(* C19: a machine with no session is shown Idle; only a Log Size Change
   submission changes run_log; a submission that succeeds leaves its
   machine Running; and a machine that has an open session has one in
   every later state. *)
C19_OnlyTransitionToRunning ==
    [][ /\ \A m \in MACHINES :
             /\ RunsOf(run_log, m) = {} => Shown(run_log, m, "Idle")
             /\ LatestOpenRun(run_log, m) # {} => LatestOpenRun(run_log', m) # {}
        /\ \A m \in MACHINES, f \in SizeInputs, s \in StartInputs :
             StartRunOf(m, f, s) => Shown(run_log', m, "Running")
        /\ run_log' # run_log => page'.choice = "Log Size Change"
      ]_vars

(* C20: a Log Size Change submission for a machine whose open session
   starts later than the submitted start is not rejected: the handler can
   run, reports no error, closes the open session with end_time equal to
   the submitted start and a negative run_hours, and inserts the new open
   session. *)
C20_OutOfOrderStartAccepted ==
    [][ \A m \in MACHINES, f \in SizeInputs, s \in StartInputs :
          \A i \in OpenRuns(run_log, m) :
            StartOf(i) > Combine(s.date, s.time) =>
              /\ RowsWritten < MaxRows => ENABLED StartRunOf(m, f, s)
              /\ StartRunOf(m, f, s) =>
                   /\ page' = Rendered("Log Size Change", Null)
                   /\ run_log'[i].end_time = IsoFormat(Combine(s.date, s.time))
                   /\ run_log'[i].run_hours # Null
                   /\ run_log'[i].run_hours[1] < 0
                   /\ IsHoursRounded(run_log'[i].run_hours[1],
                                     Combine(s.date, s.time) - StartOf(i))
                   /\ Len(run_log') = Len(run_log) + 1
                   /\ run_log'[Len(run_log')].machine = m
                   /\ run_log'[Len(run_log')].start_time = IsoFormat(Combine(s.date, s.time))
                   /\ run_log'[Len(run_log')].end_time = Null
      ]_vars

\* a session started 08:30 was closed by a start at 08:00 of the same day,
\* with -0.5 hours, and the session of 08:00 is open
C20_Witness ==
    \E i, j \in DOMAIN run_log :
        /\ run_log[i].machine = run_log[j].machine
        /\ run_log[i].start_time = <<1, 8, 30>>
        /\ run_log[i].end_time = <<1, 8, 0>>
        /\ run_log[i].run_hours = Some(0 - 500)
        /\ run_log[j].start_time = <<1, 8, 0>>
        /\ run_log[j].end_time = Null

\* the run_logs a submission for machine m with form f and start s may leave
\* of run_log `log`
AfterStartRun(log, m, f, s) ==
    { InsertRun(closed, s.date, m, LogCombined(f), IsoFormat(Combine(s.date, s.time))) :
        closed \in FinalizePreviousRun(log, m, IsoFormat(Combine(s.date, s.time))) }

\* the sessions of machine m in the order they were inserted, without the
\* row id
History(log, m) ==
    LET rows == SelectSeq(log, LAMBDA r : r.machine = m)
    IN  [ k \in DOMAIN rows |->
            [ date       |-> rows[k].date,
              size       |-> rows[k].size,
              start_time |-> rows[k].start_time,
              end_time   |-> rows[k].end_time,
              run_hours  |-> rows[k].run_hours ] ]

\* the sessions of every machine
Histories(log) == [ m \in MACHINES |-> History(log, m) ]

(* C21: a Log Size Change submission for machine M leaves every session of
   every other machine, machine_logs and expected_output as they were, sets
   end_time and run_hours of at most one session of M, open until then, and
   adds one session of M; followed by a submission for another machine it
   leaves the sessions that the two submissions leave in the other order. *)
C21_PerMachineIsolation ==
    [][ \A m \in MACHINES, f \in SizeInputs, s \in StartInputs :
          StartRunOf(m, f, s) =>
            /\ \A i \in DOMAIN run_log :
                 /\ run_log[i].machine # m => run_log'[i] = run_log[i]
                 /\ run_log'[i] # run_log[i] =>
                      /\ run_log[i].end_time = Null
                      /\ run_log[i] = [run_log'[i] EXCEPT !.end_time = Null,
                                                          !.run_hours = Null]
            /\ Cardinality({ i \in DOMAIN run_log : run_log'[i] # run_log[i] }) <= 1
            /\ Len(run_log') = Len(run_log) + 1
            /\ run_log'[Len(run_log')].machine = m
            /\ machine_logs' = machine_logs
            /\ expected_output' = expected_output
            /\ expected_seq' = expected_seq
            /\ \A m2 \in MACHINES \ {m}, f2 \in SizeInputs, s2 \in StartInputs :
                 \A after \in AfterStartRun(run_log', m2, f2, s2) :
                   \E first \in AfterStartRun(run_log, m2, f2, s2) :
                     \E other \in AfterStartRun(first, m, f, s) :
                        Histories(other) = Histories(after)
      ]_vars

\* a session of one machine was closed and followed by a new one while the
\* session of the other machine, inserted before them, is still open
C21_Witness ==
    \E i, j, k \in DOMAIN run_log :
        /\ i < j /\ j < k
        /\ run_log[i].machine # run_log[j].machine
        /\ run_log[j].machine = run_log[k].machine
        /\ run_log[i].end_time = Null
        /\ run_log[j].end_time # Null
        /\ run_log[k].end_time = Null

(* C22: every run_log row has run_hours NULL exactly when its end_time is
   NULL, so the rows with run_hours not NULL and the rows with end_time NULL,
   the two sets the total running hours are summed over, are disjoint and
   together are all the rows. *)
C22_RunHoursNullIffOpen ==
    LET done    == { i \in DOMAIN run_log : run_log[i].run_hours # Null }
        ongoing == { i \in DOMAIN run_log : run_log[i].end_time = Null }
    IN  /\ \A i \in DOMAIN run_log :
             run_log[i].run_hours = Null <=> run_log[i].end_time = Null
        /\ done \cap ongoing = {}
        /\ done \cup ongoing = DOMAIN run_log

\* a session closed after 0 hours, a session closed after other than 0
\* hours and an open session
C22_Witness ==
    /\ \E i \in DOMAIN run_log :
          run_log[i].end_time # Null /\ run_log[i].run_hours = Some(0)
    /\ \E i \in DOMAIN run_log :
          /\ run_log[i].end_time # Null
          /\ run_log[i].run_hours # Null
          /\ run_log[i].run_hours # Some(0)
    /\ \E i \in DOMAIN run_log :
          run_log[i].end_time = Null /\ run_log[i].run_hours = Null

====
